---- MODULE Spec2Model ----
(***************************************************************************)
(* EAN code retriever (src/app.py): validate_and_process_csv, process_rows *)
(* with its ThreadPoolExecutor, process_product, format_metering_points    *)
(* and get_metering_points, as a state machine.                            *)
(*                                                                         *)
(* The main thread validates the table, submits two lookups per row to a   *)
(* worker pool, reduces the futures key by key, leaves the `with` block    *)
(* (which joins every worker), and sorts and reports.  Worker threads take *)
(* queued tasks in FIFO order, send the request and process the response.  *)
(***************************************************************************)
EXTENDS Integers, Sequences, FiniteSets, TLC

\* ------------------------------------------------------------------ bounds

\* Largest number of rows of an input table.
MaxRows == 2

\* Worker threads of the pool (ThreadPoolExecutor() takes the library default).
MaxWorkers == 2

\* ------------------------------------------------------------ Python values

\* Python's None, and the float NaN pandas puts in an empty CSV cell.
NoneV == "<None>"

NaNV == "<NaN>"

\* pd.isna(x): None and NaN are "not a value".
IsNa(x) == x \in {NoneV, NaNV}

\* bool(x) of an Optional[str] / float value: None and "" are falsy, NaN is truthy.
Truthy(x) == x \notin {NoneV, ""}

\* str(x): the text of a value; str(float("nan")) is "nan".
Str(x) == IF x = NaNV THEN "nan" ELSE x

\* dict.get(key): the value, or None when the key is absent.
DictGet(d, key) == IF key \in DOMAIN d THEN d[key] ELSE NoneV

\* The dict with no key.
EmptyDict == [k \in {} |-> NoneV]

\* The elements of a sequence.
Range(s) == {s[n] : n \in 1..Len(s)}

\* ------------------------------------------------------------------ inputs

\* PRODUCTS without the gas lookup.
PRODUCTS_ElkOnly == <<"ELK">>

PRODUCTS == <<"ELK", "GAS">>

\* Address keys of the input tables: two street numbers under one postal code,
\* and a second postal code with the smaller street number.
AddressKeys == {<<"1000AA", 1>>, <<"1000AA", 2>>, <<"2000BB", 1>>}

\* The cell of the optional streetNumberAddition column: NoneV when the table
\* has no such column (row.get gives None), NaN for an empty cell.
Additions == {NoneV, NaNV, "", "A"}

Row(key, add) == [postalCode |-> key[1], streetNumber |-> key[2], streetNumberAddition |-> add]

\* Rows over every address key, the addition cell empty, and one row that
\* shares an address key with another and has an addition.
KeyRows == {Row(k, NaNV) : k \in AddressKeys} \cup {Row(<<"1000AA", 1>>, "A")}

\* Rows of one address, over every addition cell.
AdditionRows == {Row(<<"2000BB", 1>>, a) : a \in Additions}

SeqsUpTo(S, n) == UNION {[1..m -> S] : m \in 0..n}

\* The input tables: whether the required columns are there, and the rows.
Tables ==
    {[valid |-> TRUE, rows |-> r] : r \in SeqsUpTo(KeyRows, MaxRows) \cup SeqsUpTo(AdditionRows, 1)}
    \cup {[valid |-> FALSE, rows |-> r] : r \in SeqsUpTo({Row(<<"1000AA", 1>>, NaNV)}, 1)}

\* ---------------------------------------------------------------- registry

\* Metering points as the registry returns them.
Point(product, ean, addr, extra) ==
    [product |-> product, ean |-> ean, specialMeteringPoint |-> FALSE, address |-> addr] @@ extra

\* The address object of a point with an addition; the registry echoes a
\* postal code and a street number of its own.
WithAddition(a) == [streetNumberAddition |-> a, postalCode |-> "9999ZZ", streetNumber |-> 99]

\* A metering point without its "address" object.
MalformedPoint == [product |-> "ELK", ean |-> "e9", specialMeteringPoint |-> FALSE]

PointLists ==
    { <<Point("ELK", "e1", WithAddition("A"), EmptyDict), Point("ELK", "e2", EmptyDict, EmptyDict)>>,
      <<Point("GAS", "e3", EmptyDict, [bagId |-> "b1"])>>,
      <<Point("ELK", "e4", EmptyDict, EmptyDict)>>,
      <<MalformedPoint>> }

\* What one HTTP GET can end in: a network failure (requests.get raises), or a
\* response with a status and a body that is JSON or not; a JSON body is a dict
\* with or without the meteringPoints key.
NetworkFailure == [net |-> "fail", status |-> 0, json |-> FALSE, body |-> EmptyDict]

Http(status, json, body) == [net |-> "ok", status |-> status, json |-> json, body |-> body]

Responses ==
    { NetworkFailure,
      Http(500, TRUE, EmptyDict),
      Http(200, FALSE, EmptyDict),
      Http(200, TRUE, EmptyDict),
      Http(200, TRUE, [meteringPoints |-> <<>>]) }
    \cup {Http(200, TRUE, [meteringPoints |-> pl]) : pl \in PointLists}

NoResponse == [net |-> "none", status |-> 0, json |-> FALSE, body |-> EmptyDict]

\* Tables one row longer than MaxRows, over two address keys, and the
\* responses their lookups get: a status other than 200, or one point.
LongTables ==
    {[valid |-> TRUE, rows |-> r] :
        r \in [1..(MaxRows + 1) -> {Row(<<"1000AA", 1>>, NaNV), Row(<<"2000BB", 1>>, NaNV)}]}

FewResponses ==
    { Http(500, TRUE, EmptyDict),
      Http(200, TRUE, [meteringPoints |-> <<Point("ELK", "e4", EmptyDict, EmptyDict)>>]) }

\* The responses the lookups of a table can get.
RegistryFor(table) == IF Len(table.rows) > MaxRows THEN FewResponses ELSE Responses

\* ------------------------------------------------------------------- state

VARIABLES
    df,                 \* the uploaded table
    pc,                 \* where the main thread is
    i,                  \* process_rows: the next row of df.iterrows()
    tasks,              \* process_rows: the dict address_key -> futures, in insertion order
    futures,            \* every future the executor was given, in submission order
    ki,                 \* process_rows: the entry of tasks.items() being reduced
    remaining,          \* as_completed: the futures of that entry not yet yielded
    result_data,        \* process_rows: the records gathered for that entry
    metering_data,      \* process_rows: the records of the batch
    missing_addresses,  \* process_rows: the keys nothing was found for
    exc,                \* whether an exception is propagating out of process_rows
    warnings,           \* the st.warning calls made
    report,             \* the sorted frame handed to st.write / download_csv
    call                \* one call of get_metering_points on its own

vars == <<df, pc, i, tasks, futures, ki, remaining, result_data, metering_data,
          missing_addresses, exc, warnings, report, call>>

\* ----------------------------------------------------------- pure functions

\* Normalize without the pd.isna test.
NormalizeEmptyOnly(a) == IF a = "" THEN NoneV ELSE a

\* process_rows, lines 74-79: an addition that is NA or "" becomes None.
Normalize(a) == IF IsNa(a) \/ a = "" THEN NoneV ELSE a

\* get_metering_points, lines 175-181: the query parameters.
BuildParams(product, postal_code, street_number, street_number_addition) ==
    LET params == [product |-> product, postalCode |-> postal_code, streetNumber |-> street_number]
    IN  IF Truthy(street_number_addition)
        THEN params @@ [streetNumberAddition |-> Str(street_number_addition)]
        ELSE params

\* What a call returns or raises.
Returned(tag, items) == [tag |-> tag, items |-> items]

Raise == Returned("raise", <<>>)

\* GetMeteringPoints with response.json()["meteringPoints"]: KeyError when the
\* key is absent.
GetMeteringPointsNoDefault(response) ==
    IF response.net = "fail" THEN Raise
    ELSE IF response.status # 200 THEN Returned("None", <<>>)
    ELSE IF ~response.json THEN Raise
    ELSE IF "meteringPoints" \in DOMAIN response.body
         THEN Returned("list", response.body.meteringPoints) ELSE Raise

\* get_metering_points, lines 183-188: requests.get raises on a network failure;
\* a status other than 200 gives None; on 200 response.json() raises on a body
\* that is not JSON, and the meteringPoints array (default []) is returned.
GetMeteringPoints(response) ==
    IF response.net = "fail" THEN Raise
    ELSE IF response.status # 200 THEN Returned("None", <<>>)
    ELSE IF ~response.json THEN Raise
    ELSE Returned("list", IF "meteringPoints" \in DOMAIN response.body
                          THEN response.body.meteringPoints ELSE <<>>)

\* FormatPoint with the addition of the row for the addition of the registry.
FormatPointRowAddition(row, meter_point) ==
    [postalCode |-> row.postalCode,
     streetNumber |-> row.streetNumber,
     streetNumberAddition |-> Normalize(row.streetNumberAddition),
     bagId |-> DictGet(meter_point, "bagId"),
     product |-> meter_point.product,
     ean |-> meter_point.ean,
     specialMeteringPoint |-> meter_point.specialMeteringPoint]

\* format_metering_points, lines 144-155: one record per metering point;
\* meter_point["address"] raises KeyError when the point has no address.
FormatPoint(row, meter_point) ==
    [postalCode |-> row.postalCode,
     streetNumber |-> row.streetNumber,
     streetNumberAddition |-> DictGet(meter_point.address, "streetNumberAddition"),
     bagId |-> DictGet(meter_point, "bagId"),
     product |-> meter_point.product,
     ean |-> meter_point.ean,
     specialMeteringPoint |-> meter_point.specialMeteringPoint]

FormatMeteringPoints(row, metering_points) ==
    IF \E n \in 1..Len(metering_points) : "address" \notin DOMAIN metering_points[n]
    THEN Raise
    ELSE Returned("list", [n \in 1..Len(metering_points) |-> FormatPoint(row, metering_points[n])])

\* ProcessProduct with a placeholder record, without ean, for a product that
\* found nothing.
ProcessProductPlaceholder(row, product, response) ==
    LET metering_points == GetMeteringPoints(response)
    IN  IF metering_points.tag = "raise" THEN Raise
        ELSE IF metering_points.tag = "list" /\ metering_points.items # <<>>
        THEN FormatMeteringPoints(row, metering_points.items)
        ELSE Returned("list", <<[postalCode |-> row.postalCode,
                                 streetNumber |-> row.streetNumber,
                                 streetNumberAddition |-> NoneV,
                                 bagId |-> NoneV,
                                 product |-> product,
                                 ean |-> NoneV,
                                 specialMeteringPoint |-> NoneV]>>)

\* process_product, lines 119-129, once the request of lines 119-124 has its
\* response: the records of the metering points, [] when the lookup gave None
\* or an empty list.
ProcessProduct(row, product, response) ==
    LET metering_points == GetMeteringPoints(response)
    IN  IF metering_points.tag = "raise" THEN Raise
        ELSE IF metering_points.tag = "list" /\ metering_points.items # <<>>
        THEN FormatMeteringPoints(row, metering_points.items)
        ELSE Returned("list", <<>>)

\* ------------------------------------------------------------ the tasks dict

\* tasks is a sequence of [key, futs] entries in insertion order.
HasKey(d, key) == \E n \in 1..Len(d) : d[n].key = key

\* DictSet that keeps the futures an existing key had (setdefault and extend).
DictSetExtend(d, key, futs) ==
    IF HasKey(d, key)
    THEN [n \in 1..Len(d) |-> IF d[n].key = key
                               THEN [key |-> key, futs |-> d[n].futs \cup futs] ELSE d[n]]
    ELSE Append(d, [key |-> key, futs |-> futs])

\* DictSet that moves an existing key to the end (del d[key] before the set).
DictSetMoveToEnd(d, key, futs) ==
    LET kept == {n \in 1..Len(d) : d[n].key # key}
        Pick[S \in SUBSET (1..Len(d))] ==
            IF S = {} THEN <<>>
            ELSE LET n == CHOOSE x \in S : \A y \in S : x <= y
                 IN  <<d[n]>> \o Pick[S \ {n}]
    IN  Append(Pick[kept], [key |-> key, futs |-> futs])

\* d[key] = futs: a new key goes last, an existing key keeps its place and
\* loses its old value.
DictSet(d, key, futs) ==
    IF HasKey(d, key)
    THEN [n \in 1..Len(d) |-> IF d[n].key = key THEN [key |-> key, futs |-> futs] ELSE d[n]]
    ELSE Append(d, [key |-> key, futs |-> futs])

\* ------------------------------------------------------------------ sorting

\* Python's order of the strings of the model, as a rank.
StrOrder == <<"", "1000AA", "2000BB", "A", "ELK", "GAS">>

StrRank(s) == CHOOSE n \in 1..Len(StrOrder) : StrOrder[n] = s

\* One column of the sort: -1, 0 or 1; pandas puts NA (None, NaN) last.
CmpStr(a, b) ==
    IF IsNa(a) /\ IsNa(b) THEN 0
    ELSE IF IsNa(a) THEN 1
    ELSE IF IsNa(b) THEN -1
    ELSE IF StrRank(a) < StrRank(b) THEN -1
    ELSE IF StrRank(a) > StrRank(b) THEN 1 ELSE 0

CmpInt(a, b) == IF a < b THEN -1 ELSE IF a > b THEN 1 ELSE 0

\* by=["postalCode", "streetNumber", "streetNumberAddition", "product"].
CmpRecords(a, b) ==
    IF CmpStr(a.postalCode, b.postalCode) # 0 THEN CmpStr(a.postalCode, b.postalCode)
    ELSE IF CmpInt(a.streetNumber, b.streetNumber) # 0 THEN CmpInt(a.streetNumber, b.streetNumber)
    ELSE IF CmpStr(a.streetNumberAddition, b.streetNumberAddition) # 0
         THEN CmpStr(a.streetNumberAddition, b.streetNumberAddition)
    ELSE CmpStr(a.product, b.product)

\* Insert r after every record that is not greater: equal records keep their order.
RECURSIVE InsertSorted(_, _)
InsertSorted(s, r) ==
    IF s = <<>> THEN <<r>>
    ELSE IF CmpRecords(r, Head(s)) < 0 THEN <<r>> \o s
    ELSE <<Head(s)>> \o InsertSorted(Tail(s), r)

\* DataFrame.sort_values on several columns: ascending, stable.
RECURSIVE SortValues(_)
SortValues(s) ==
    IF s = <<>> THEN <<>>
    ELSE InsertSorted(SortValues(SubSeq(s, 1, Len(s) - 1)), s[Len(s)])

\* ----------------------------------------------------------------- reducer

\* MissingAfter that reports no address.
MissingAfterNever(missing, key, data) == missing

\* MeteringAfter with append(data[0]) for extend(data).
MeteringAfterFirst(metering, key, data) ==
    IF data = <<>> THEN metering ELSE Append(metering, data[1])

\* process_rows, lines 98-101: what one entry adds to the two lists.
MissingAfter(missing, key, data) == IF data = <<>> THEN Append(missing, key) ELSE missing

MeteringAfter(metering, key, data) == IF data = <<>> THEN metering ELSE metering \o data

\* ------------------------------------------------------------------ actions

\* No call of get_metering_points on its own is under way.
NoCall == [phase |-> "idle"]

Init ==
    /\ df \in Tables
    /\ pc = "validate"
    /\ i = 1
    /\ tasks = <<>>
    /\ futures = <<>>
    /\ ki = 1
    /\ remaining = {}
    /\ result_data = <<>>
    /\ metering_data = <<>>
    /\ missing_addresses = <<>>
    /\ exc = FALSE
    /\ warnings = <<>>
    /\ report = <<>>
    /\ call = NoCall

\* Validate without the test of the required columns.
ValidateNoCheck ==
    /\ pc = "validate"
    /\ pc' = "submit"
    /\ UNCHANGED <<df, i, tasks, futures, ki, remaining, result_data, metering_data,
                   missing_addresses, exc, warnings, report, call>>

\* validate_and_process_csv, lines 31-40: without the required columns an
\* error is shown and nothing else happens.
Validate ==
    /\ pc = "validate"
    /\ pc' = IF df.valid THEN "submit" ELSE "error"
    /\ UNCHANGED <<df, i, tasks, futures, ki, remaining, result_data, metering_data,
                   missing_addresses, exc, warnings, report, call>>

\* A future as submitted: process_product(row, product, street_number_addition).
NewFuture(row, product, addition) ==
    [row |-> row, product |-> product, addition |-> addition, state |-> "pending",
     params |-> EmptyDict, points |-> Returned("none", <<>>),
     outcome |-> Returned("none", <<>>)]

\* process_rows, lines 73-89: one iteration of the loop over the rows.
SubmitRow ==
    /\ pc = "submit"
    /\ i <= Len(df.rows)
    /\ LET row == df.rows[i]
           street_number_addition == Normalize(row.streetNumberAddition)
           address_key == <<row.postalCode, row.streetNumber>>
           n == Len(futures)
       IN  /\ futures' = futures \o [p \in 1..Len(PRODUCTS) |->
                                        NewFuture(i, PRODUCTS[p], street_number_addition)]
           /\ tasks' = DictSet(tasks, address_key, {n + p : p \in 1..Len(PRODUCTS)})
    /\ i' = i + 1
    /\ UNCHANGED <<df, pc, ki, remaining, result_data, metering_data, missing_addresses,
                   exc, warnings, report, call>>

\* The futures as_completed is given for entry k of tasks.items().
FuturesOf(d, k) == IF k <= Len(d) THEN d[k].futs ELSE {}

\* process_rows, line 91: the rows are used up and the loop over tasks.items() starts.
BeginReduce ==
    /\ pc = "submit"
    /\ i > Len(df.rows)
    /\ pc' = "reduce"
    /\ ki' = 1
    /\ remaining' = FuturesOf(tasks, 1)
    /\ result_data' = <<>>
    /\ UNCHANGED <<df, i, tasks, futures, metering_data, missing_addresses, exc, warnings, report, call>>

\* AsCompleted with lines 98-101 inside the loop over the futures: the entry
\* is merged after each future as_completed yields.
AsCompletedMergeEach(f) ==
    /\ pc = "reduce"
    /\ f \in remaining
    /\ futures[f].state = "done"
    /\ IF futures[f].outcome.tag = "raise"
       THEN /\ exc' = TRUE
            /\ pc' = "shutdown"
            /\ UNCHANGED <<ki, remaining, result_data, metering_data, missing_addresses>>
       ELSE LET data == result_data \o futures[f].outcome.items
            IN  /\ missing_addresses' = MissingAfter(missing_addresses, tasks[ki].key, data)
                /\ metering_data' = MeteringAfter(metering_data, tasks[ki].key, data)
                /\ IF remaining = {f}
                   THEN /\ ki' = ki + 1
                        /\ remaining' = FuturesOf(tasks, ki + 1)
                        /\ result_data' = <<>>
                   ELSE /\ result_data' = data
                        /\ remaining' = remaining \ {f}
                        /\ UNCHANGED ki
                /\ UNCHANGED <<pc, exc>>
    /\ UNCHANGED <<df, i, tasks, futures, warnings, report, call>>

\* process_rows, lines 93-101: as_completed yields a finished future of the
\* entry; future.result() re-raises what the task raised; after the entry's
\* last future the entry is merged and the next entry starts.
AsCompleted(f) ==
    /\ pc = "reduce"
    /\ f \in remaining
    /\ futures[f].state = "done"
    /\ IF futures[f].outcome.tag = "raise"
       THEN /\ exc' = TRUE
            /\ pc' = "shutdown"
            /\ UNCHANGED <<ki, remaining, result_data, metering_data, missing_addresses>>
       ELSE LET data == result_data \o futures[f].outcome.items
            IN  IF remaining = {f}
                THEN /\ missing_addresses' = MissingAfter(missing_addresses, tasks[ki].key, data)
                     /\ metering_data' = MeteringAfter(metering_data, tasks[ki].key, data)
                     /\ ki' = ki + 1
                     /\ remaining' = FuturesOf(tasks, ki + 1)
                     /\ result_data' = <<>>
                     /\ UNCHANGED <<pc, exc>>
                ELSE /\ result_data' = data
                     /\ remaining' = remaining \ {f}
                     /\ UNCHANGED <<pc, exc, ki, metering_data, missing_addresses>>
    /\ UNCHANGED <<df, i, tasks, futures, warnings, report, call>>

\* process_rows, line 91: tasks.items() is used up.
EndReduce ==
    /\ pc = "reduce"
    /\ ki > Len(tasks)
    /\ pc' = "shutdown"
    /\ UNCHANGED <<df, i, tasks, futures, ki, remaining, result_data, metering_data,
                   missing_addresses, exc, warnings, report, call>>

\* shutdown(wait=False): nothing is joined.
ShutdownNoWait(fs) == TRUE

\* ThreadPoolExecutor.__exit__ is shutdown(wait=True): it joins the workers,
\* which first run every queued task.
ShutdownWait(fs) == \A t \in 1..Len(fs) : fs[t].state = "done"

\* process_rows, lines 72 and 103: the `with` block is left, by the return or
\* by the exception.
ExecutorExit ==
    /\ pc = "shutdown"
    /\ ShutdownWait(futures)
    /\ pc' = IF exc THEN "raised" ELSE "returned"
    /\ UNCHANGED <<df, i, tasks, futures, ki, remaining, result_data, metering_data,
                   missing_addresses, exc, warnings, report, call>>

\* validate_and_process_csv, lines 42-55: one warning per missing address, and
\* the records, when there are any, sorted.
Report ==
    /\ pc = "returned"
    /\ warnings' = missing_addresses
    /\ report' = IF metering_data # <<>> THEN SortValues(metering_data) ELSE <<>>
    /\ pc' = "done"
    /\ UNCHANGED <<df, i, tasks, futures, ki, remaining, result_data, metering_data,
                   missing_addresses, exc, call>>

Running(fs) == {t \in 1..Len(fs) : fs[t].state = "running"}

Pending(fs) == {t \in 1..Len(fs) : fs[t].state = "pending"}

\* StartTask with a thread per task: no bound on the running tasks.
StartTaskUnbounded(t) ==
    /\ t \in Pending(futures)
    /\ \A u \in Pending(futures) : t <= u
    /\ LET fut == futures[t]
           row == df.rows[fut.row]
       IN  futures' = [futures EXCEPT ![t] =
               [fut EXCEPT !.state = "running",
                           !.params = BuildParams(fut.product, row.postalCode, row.streetNumber,
                                                  fut.addition)]]
    /\ UNCHANGED <<df, pc, i, tasks, ki, remaining, result_data, metering_data,
                   missing_addresses, exc, warnings, report, call>>

\* A worker thread takes the oldest queued task (the work queue is FIFO) and
\* calls process_product, which builds and sends the request.
StartTask(t) ==
    /\ t \in Pending(futures)
    /\ \A u \in Pending(futures) : t <= u
    /\ Cardinality(Running(futures)) < MaxWorkers
    /\ LET fut == futures[t]
           row == df.rows[fut.row]
       IN  futures' = [futures EXCEPT ![t] =
               [fut EXCEPT !.state = "running",
                           !.params = BuildParams(fut.product, row.postalCode, row.streetNumber,
                                                  fut.addition)]]
    /\ UNCHANGED <<df, pc, i, tasks, ki, remaining, result_data, metering_data,
                   missing_addresses, exc, warnings, report, call>>

\* FinishTask with the worker adding its records to the shared list itself.
FinishTaskShared(t, response) ==
    /\ t \in Running(futures)
    /\ LET fut == futures[t]
           row == df.rows[fut.row]
           outcome == ProcessProduct(row, fut.product, response)
       IN  /\ futures' = [futures EXCEPT ![t] =
                  [fut EXCEPT !.state = "done",
                              !.points = GetMeteringPoints(response),
                              !.outcome = outcome]]
           /\ metering_data' = metering_data \o outcome.items
    /\ UNCHANGED <<df, pc, i, tasks, ki, remaining, result_data,
                   missing_addresses, exc, warnings, report, call>>

\* The request ends and process_product returns or raises; the future is done.
FinishTask(t, response) ==
    /\ t \in Running(futures)
    /\ LET fut == futures[t]
           row == df.rows[fut.row]
       IN  futures' = [futures EXCEPT ![t] =
               [fut EXCEPT !.state = "done",
                           !.points = GetMeteringPoints(response),
                           !.outcome = ProcessProduct(row, fut.product, response)]]
    /\ UNCHANGED <<df, pc, i, tasks, ki, remaining, result_data, metering_data,
                   missing_addresses, exc, warnings, report, call>>

Next ==
    \/ Validate
    \/ SubmitRow
    \/ BeginReduce
    \/ \E f \in remaining : AsCompleted(f)
    \/ EndReduce
    \/ ExecutorExit
    \/ Report
    \/ \E t \in 1..Len(futures) : StartTask(t)
    \/ \E t \in 1..Len(futures), response \in RegistryFor(df) : FinishTask(t, response)

Spec == Init /\ [][Next]_vars

\* The same program on the long tables.
InitLong ==
    /\ df \in LongTables
    /\ pc = "validate"
    /\ i = 1
    /\ tasks = <<>>
    /\ futures = <<>>
    /\ ki = 1
    /\ remaining = {}
    /\ result_data = <<>>
    /\ metering_data = <<>>
    /\ missing_addresses = <<>>
    /\ exc = FALSE
    /\ warnings = <<>>
    /\ report = <<>>
    /\ call = NoCall

SpecLong == InitLong /\ [][Next]_vars

\* ------------------------------------------- the registry client on its own

\* The arguments get_metering_points is called with.
CallArgs ==
    {[product |-> p, postal_code |-> k[1], street_number |-> k[2], street_number_addition |-> a] :
        p \in Range(PRODUCTS), k \in AddressKeys, a \in {NoneV, "", "A"}}

\* One call of get_metering_points, nothing else going on.
InitClient ==
    /\ df = [valid |-> TRUE, rows |-> <<>>]
    /\ pc = "client"
    /\ i = 1
    /\ tasks = <<>>
    /\ futures = <<>>
    /\ ki = 1
    /\ remaining = {}
    /\ result_data = <<>>
    /\ metering_data = <<>>
    /\ missing_addresses = <<>>
    /\ exc = FALSE
    /\ warnings = <<>>
    /\ report = <<>>
    /\ \E args \in CallArgs : call = [phase |-> "called", args |-> args]

\* get_metering_points, lines 175-183: the parameters are built and the GET is sent.
ClientRequest ==
    /\ call.phase = "called"
    /\ call' = [phase |-> "sent", args |-> call.args,
                params |-> BuildParams(call.args.product, call.args.postal_code,
                                       call.args.street_number, call.args.street_number_addition)]
    /\ UNCHANGED <<df, pc, i, tasks, futures, ki, remaining, result_data, metering_data,
                   missing_addresses, exc, warnings, report>>

\* get_metering_points, lines 183-188: the GET ends and the call returns or
\* raises; process_product, lines 126-129, the caller, turns what is returned
\* into records.
ClientResponse(response) ==
    /\ call.phase = "sent"
    /\ call' = [phase |-> "ended", args |-> call.args, params |-> call.params,
                response |-> response, result |-> GetMeteringPoints(response),
                outcome |-> ProcessProduct(Row(<<call.args.postal_code, call.args.street_number>>,
                                               call.args.street_number_addition),
                                           call.args.product, response)]
    /\ UNCHANGED <<df, pc, i, tasks, futures, ki, remaining, result_data, metering_data,
                   missing_addresses, exc, warnings, report>>

NextClient ==
    \/ ClientRequest
    \/ \E response \in Responses : ClientResponse(response)

SpecClient == InitClient /\ [][NextClient]_vars

\* ------------------------------------------------------------------ claims

KeyOf(r) == <<r.postalCode, r.streetNumber>>

\* The address keys of the input rows.
InputKeys == {KeyOf(df.rows[n]) : n \in 1..Len(df.rows)}

\* The places of a sequence that hold a record (or a key) of an address.
RecordsAt(s, key) == {n \in 1..Len(s) : KeyOf(s[n]) = key}

EntriesAt(s, key) == {n \in 1..Len(s) : s[n] = key}

\* process_rows has returned its two lists.
HasReturned == pc \in {"returned", "done"}

\* The lookup outcomes of the spec, read off a finished future: Found is a
\* non-empty meteringPoints array, NotFound an empty or absent one,
\* TransportError the None of a status other than 200.
IsFound(fut) == fut.points.tag = "list" /\ fut.points.items # <<>>

IsNotFound(fut) == fut.points.tag = "list" /\ fut.points.items = <<>>

IsTransportError(fut) == fut.points.tag = "None"

\* The entries of tasks.items() the reducer has merged.
Reduced == {k \in 1..Len(tasks) : k < ki}

RECURSIVE SumPoints(_)
SumPoints(fs) ==
    IF fs = {} THEN 0
    ELSE LET f == CHOOSE x \in fs : TRUE
         IN  Len(futures[f].points.items) + SumPoints(fs \ {f})

PointEans(fs) == UNION {{p.ean : p \in Range(futures[f].points.items)} : f \in fs}

\* C1: once process_rows has returned, the address keys of the records
\* together with the missing addresses are exactly the address keys of the
\* input rows, and no address key is in both.
C1_AddressCoverage ==
    HasReturned =>
        LET covered == {KeyOf(metering_data[n]) : n \in 1..Len(metering_data)}
            missing == Range(missing_addresses)
        IN  /\ covered \cup missing = InputKeys
            /\ covered \cap missing = {}

\* A batch of two addresses has returned, one with records and one missing.
C1_Witness ==
    /\ pc = "returned"
    /\ Cardinality(InputKeys) = 2
    /\ metering_data # <<>>
    /\ missing_addresses # <<>>

\* C2: a fault thrown inside a lookup task is never raised to the caller of
\* process_rows, which still returns the records of every other task.
C2_FailureIsolation ==
    (\E t \in 1..Len(futures) : futures[t].outcome.tag = "raise") =>
        /\ ~exc
        /\ pc # "raised"
        /\ HasReturned =>
               \A k \in 1..Len(tasks) : \A f \in tasks[k].futs :
                   futures[f].outcome.tag = "list" =>
                       Range(futures[f].outcome.items) \subseteq Range(metering_data)

\* C3: once the rows are submitted, every submitted task is in the outcome
\* group of its address key, so each group holds one future per task issued
\* for that address.
C3_AllOutcomesCollected ==
    pc \in {"reduce", "shutdown", "returned", "raised", "done"} =>
        \A t \in 1..Len(futures) :
            \E k \in 1..Len(tasks) :
                /\ tasks[k].key = KeyOf(df.rows[futures[t].row])
                /\ t \in tasks[k].futs

\* C4: for every merged address with at least one Found outcome, the records
\* of that address are one per metering point of its Found outcomes, none is
\* a placeholder without ean, and the address is not reported missing.
C4_PartialFind ==
    \A k \in Reduced :
        (\E f \in tasks[k].futs : IsFound(futures[f])) =>
            LET key == tasks[k].key
                at == RecordsAt(metering_data, key)
            IN  /\ Cardinality(at) = SumPoints(tasks[k].futs)
                /\ {metering_data[n].ean : n \in at} = PointEans(tasks[k].futs)
                /\ \A n \in at : metering_data[n].ean # NoneV
                /\ EntriesAt(missing_addresses, key) = {}

\* An address was merged whose one lookup found two points and whose other
\* lookup found nothing or got a status other than 200: two records.
C4_Witness ==
    \E k \in Reduced :
        /\ \E f \in tasks[k].futs : Len(futures[f].points.items) = 2
        /\ \E f \in tasks[k].futs : IsNotFound(futures[f]) \/ IsTransportError(futures[f])
        /\ Cardinality(RecordsAt(metering_data, tasks[k].key)) = 2

\* C5: for every merged address whose lookups all ended NotFound or
\* TransportError, there is exactly one missing-address entry and no record.
C5_NothingFound ==
    \A k \in Reduced :
        (\A f \in tasks[k].futs : IsNotFound(futures[f]) \/ IsTransportError(futures[f])) =>
            LET key == tasks[k].key
            IN  /\ Cardinality(EntriesAt(missing_addresses, key)) = 1
                /\ RecordsAt(metering_data, key) = {}

\* An address was merged whose one lookup ended NotFound and whose other
\* lookup ended TransportError.
C5_Witness ==
    \E k \in Reduced :
        /\ \E f \in tasks[k].futs : IsNotFound(futures[f])
        /\ \E f \in tasks[k].futs : IsTransportError(futures[f])
        /\ Cardinality(EntriesAt(missing_addresses, tasks[k].key)) = 1

\* A network failure, a status other than 200, or a body that is not JSON.
IsTransportFailure(response) ==
    response.net = "fail" \/ response.status # 200 \/ ~response.json

\* C6: on a status other than 200, a network failure or a body that is not
\* JSON, get_metering_points returns TransportError (None) and does not raise.
C6_TransportErrorValue ==
    (call.phase = "ended" /\ IsTransportFailure(call.response)) => call.result.tag = "None"

\* The order of the claim on one column: an absent value before every value.
CmpAbsentFirst(a, b) ==
    IF IsNa(a) /\ IsNa(b) THEN 0
    ELSE IF IsNa(a) THEN -1
    ELSE IF IsNa(b) THEN 1
    ELSE CmpStr(a, b)

CmpClaimed(a, b) ==
    IF CmpStr(a.postalCode, b.postalCode) # 0 THEN CmpStr(a.postalCode, b.postalCode)
    ELSE IF CmpInt(a.streetNumber, b.streetNumber) # 0 THEN CmpInt(a.streetNumber, b.streetNumber)
    ELSE IF CmpAbsentFirst(a.streetNumberAddition, b.streetNumberAddition) # 0
         THEN CmpAbsentFirst(a.streetNumberAddition, b.streetNumberAddition)
    ELSE CmpStr(a.product, b.product)

\* C7: the reported records ascend by (postalCode, streetNumber,
\* streetNumberAddition, product), an absent addition before every addition.
C7_SortedAbsentFirst ==
    pc = "done" =>
        \A m, n \in 1..Len(report) : m < n => CmpClaimed(report[m], report[n]) <= 0

\* The futures of a set, in submission order.
RECURSIVE InOrder(_)
InOrder(fs) ==
    IF fs = {} THEN <<>>
    ELSE LET f == CHOOSE x \in fs : \A y \in fs : x <= y
         IN  <<f>> \o InOrder(fs \ {f})

RECURSIVE Concat(_)
Concat(ss) == IF ss = <<>> THEN <<>> ELSE Head(ss) \o Concat(Tail(ss))

\* The records of entry k when its futures are read in submission order.
OrderedData(k) ==
    LET fs == InOrder(tasks[k].futs)
    IN  Concat([n \in 1..Len(fs) |-> futures[fs[n]].outcome.items])

\* The two lists of process_rows when every entry is read in submission order.
OrderedMetering == Concat([k \in 1..Len(tasks) |-> OrderedData(k)])

OrderedMissing ==
    Concat([k \in 1..Len(tasks) |-> IF OrderedData(k) = <<>> THEN <<tasks[k].key>> ELSE <<>>])

\* C8: the reported records and the warnings are those of the run that reads
\* every lookup in submission order, whatever the completion order was.
C8_Deterministic ==
    pc = "done" =>
        /\ report = SortValues(OrderedMetering)
        /\ warnings = OrderedMissing

\* The futures no entry of the tasks dict refers to.
Orphans == {t \in 1..Len(futures) : \A k \in 1..Len(tasks) : t \notin tasks[k].futs}

\* C9: when process_rows has returned or raised, every submitted task has
\* ended, also the tasks the tasks dict no longer refers to.
C9_Completion ==
    pc \in {"returned", "raised", "done"} => \A t \in 1..Len(futures) : futures[t].state = "done"

\* process_rows has returned from a batch with a task the dict had dropped.
C9_Witness == pc = "returned" /\ Orphans # {}

\* The row's addition is there and not empty.
HasAddition(row) == row.streetNumberAddition \notin {NoneV, NaNV, ""}

\* C10: the row expander hands on None exactly for a missing, NaN or empty
\* addition, and a request that was built has streetNumberAddition if and
\* only if the row has an addition, then with that value and never empty;
\* product, postalCode and streetNumber are always there.
C10_AdditionParameter ==
    \A t \in 1..Len(futures) :
        LET fut == futures[t]
            row == df.rows[fut.row]
        IN  /\ fut.addition = NoneV <=> ~HasAddition(row)
            /\ fut.state # "pending" =>
                   /\ "streetNumberAddition" \in DOMAIN fut.params <=> HasAddition(row)
                   /\ HasAddition(row) => fut.params.streetNumberAddition = row.streetNumberAddition
                   /\ "streetNumberAddition" \in DOMAIN fut.params => fut.params.streetNumberAddition # ""
                   /\ {"product", "postalCode", "streetNumber"} \subseteq DOMAIN fut.params
                   /\ fut.params.product = fut.product
                   /\ fut.params.postalCode = row.postalCode
                   /\ fut.params.streetNumber = row.streetNumber

\* A request was built for a row whose addition is the empty string, without
\* the parameter.
C10_Witness ==
    \E t \in 1..Len(futures) :
        /\ futures[t].state # "pending"
        /\ df.rows[futures[t].row].streetNumberAddition = ""
        /\ "streetNumberAddition" \notin DOMAIN futures[t].params

\* C11: with a table that lacks a required column the batch is not started:
\* the main thread goes from the validation to the error and nowhere else, no
\* task is submitted, no request is built, and there are no records and no
\* warnings.
C11_InvalidTableNotStarted ==
    ~df.valid =>
        /\ pc \in {"validate", "error"}
        /\ futures = <<>>
        /\ tasks = <<>>
        /\ metering_data = <<>>
        /\ missing_addresses = <<>>
        /\ warnings = <<>>
        /\ report = <<>>

\* The error was reported for a table that has a row.
C11_Witness == pc = "error" /\ ~df.valid /\ df.rows # <<>>

\* C12: the lookups that run at the same time are at most the workers of the pool.
C12_ConcurrencyBound == Cardinality(Running(futures)) <= MaxWorkers

\* Every worker is busy and a task waits in the queue.
C12_Witness == Cardinality(Running(futures)) = MaxWorkers /\ Pending(futures) # {}

\* The entries of the tasks dict whose address is in one of the two lists.
Merged ==
    {k \in 1..Len(tasks) :
        \/ RecordsAt(metering_data, tasks[k].key) # {}
        \/ EntriesAt(missing_addresses, tasks[k].key) # {}}

\* C13 as claimed: nothing is merged into the record list or the
\* missing-address list before every submitted task has ended.
C13_NoMergeBeforeAllDone ==
    Merged # {} => \A t \in 1..Len(futures) : futures[t].state = "done"

\* C13 as amended: an address is merged into the record list or the
\* missing-address list only when every lookup of its outcome group has ended.
C13_NoMergeBeforeGroupDone ==
    \A k \in Merged : \A f \in tasks[k].futs : futures[f].state = "done"

\* An address is merged while a lookup of another address has not ended.
C13_Witness ==
    /\ Merged # {}
    /\ \E t \in 1..Len(futures) : futures[t].state # "done"

\* A step of a worker thread: a future that was submitted changes.
WorkerStep == \E t \in 1..Len(futures) : futures'[t] # futures[t]

\* C14: a step of a worker thread leaves the tasks dict, the record lists and
\* the missing-address list alone and only moves its own future on (the
\* other futures stay, and a future that has ended keeps its result), so
\* these structures are written by the main thread only.
C14_SingleWriter ==
    [][WorkerStep =>
          /\ UNCHANGED <<tasks, result_data, metering_data, missing_addresses, warnings, report>>
          /\ Len(futures') = Len(futures)
          /\ Cardinality({t \in 1..Len(futures) : futures'[t] # futures[t]}) = 1
          /\ \A t \in 1..Len(futures) : futures[t].state = "done" => futures'[t] = futures[t]]_vars

\* Two lookups run at the same time while the main thread has merged an
\* address into the record list.
C14_Witness == Cardinality(Running(futures)) = 2 /\ metering_data # <<>>

\* The row's addition as the lookups are to carry it.
ExpectedAddition(row) == IF HasAddition(row) THEN row.streetNumberAddition ELSE NoneV

\* C15: the rows the expander has passed have two futures each, in row
\* order, the first for ELK and the second for GAS, both of that row and with
\* its normalized addition, and a request that was built carries the row's
\* postalCode and streetNumber: 2n tasks for the n rows of a batch.
C15_RowExpansion ==
    /\ Len(futures) = 2 * (i - 1)
    /\ pc \in {"reduce", "shutdown", "returned", "raised", "done"} => Len(futures) = 2 * Len(df.rows)
    /\ \A r \in 1..(i - 1) :
           /\ futures[2 * r - 1].product = "ELK"
           /\ futures[2 * r].product = "GAS"
           /\ \A t \in {2 * r - 1, 2 * r} :
                  /\ futures[t].row = r
                  /\ futures[t].addition = ExpectedAddition(df.rows[r])
                  /\ futures[t].state # "pending" =>
                         /\ futures[t].params.postalCode = df.rows[r].postalCode
                         /\ futures[t].params.streetNumber = df.rows[r].streetNumber

\* The rows of a batch of two rows are submitted: four tasks.
C15_Witness == pc = "reduce" /\ Len(df.rows) = 2 /\ Len(futures) = 4

\* The response has status 200 and a JSON body.
IsSuccess(response) == response.net = "ok" /\ response.status = 200 /\ response.json

WellFormed(points) == \A n \in 1..Len(points) : "address" \in DOMAIN points[n]

\* C16: on status 200 get_metering_points returns the meteringPoints array of
\* the body, the empty array when the key is absent; the lookup gives records
\* (Found), one per point, exactly when the array is not empty, and no record
\* (NotFound) when it is empty or absent.
C16_SuccessBody ==
    (call.phase = "ended" /\ IsSuccess(call.response)) =>
        LET body == call.response.body
            array == IF "meteringPoints" \in DOMAIN body THEN body.meteringPoints ELSE <<>>
        IN  /\ call.result.tag = "list"
            /\ call.result.items = array
            /\ array = <<>> => call.outcome = Returned("list", <<>>)
            /\ (array # <<>> /\ WellFormed(array)) =>
                   /\ call.outcome.tag = "list"
                   /\ Len(call.outcome.items) = Len(array)

\* A call ended on a 200 response whose body has no meteringPoints key.
C16_Witness ==
    /\ call.phase = "ended"
    /\ IsSuccess(call.response)
    /\ "meteringPoints" \notin DOMAIN call.response.body
    /\ call.result = Returned("list", <<>>)

\* What the registry gave for a field that may be absent.
RegistryAddition(point) ==
    IF "streetNumberAddition" \in DOMAIN point.address
    THEN point.address.streetNumberAddition ELSE NoneV

RegistryBagId(point) == IF "bagId" \in DOMAIN point THEN point.bagId ELSE NoneV

\* The records of the lookups of the tasks dict.
GroupedRecords ==
    UNION {Range(futures[f].outcome.items) : f \in UNION {tasks[k].futs : k \in 1..Len(tasks)}}

\* C17: every record a lookup produced has the postalCode and streetNumber
\* of the row of that lookup and the streetNumberAddition and bagId of the
\* registry's metering point (None when the registry gives none); the records
\* of the batch and of the report are records of these lookups.
C17_RecordFields ==
    /\ \A t \in 1..Len(futures) :
           LET fut == futures[t]
               row == df.rows[fut.row]
           IN  \A n \in 1..Len(fut.outcome.items) :
                   LET rec == fut.outcome.items[n]
                       point == fut.points.items[n]
                   IN  /\ rec.postalCode = row.postalCode
                       /\ rec.streetNumber = row.streetNumber
                       /\ rec.streetNumberAddition = RegistryAddition(point)
                       /\ rec.bagId = RegistryBagId(point)
    /\ Range(metering_data) \subseteq GroupedRecords
    /\ Range(report) \subseteq GroupedRecords

\* The report has a record with the registry's addition A for a row without
\* addition, and a record with the registry's bagId.
C17_Witness ==
    /\ pc = "done"
    /\ \E n \in 1..Len(report) : report[n].streetNumberAddition = "A"
    /\ \E n \in 1..Len(report) : report[n].bagId = "b1"
    /\ \A r \in 1..Len(df.rows) : ~HasAddition(df.rows[r])

\* The rows submitted so far that have an address key, and the two futures of a row.
RowsOf(key) == {r \in 1..(i - 1) : KeyOf(df.rows[r]) = key}

LastRow(key) == CHOOSE r \in RowsOf(key) : \A q \in RowsOf(key) : q <= r

FirstRow(key) == CHOOSE r \in RowsOf(key) : \A q \in RowsOf(key) : r <= q

FuturesOfRow(r) == {2 * r - 1, 2 * r}

RECURSIVE SumRecords(_)
SumRecords(fs) ==
    IF fs = {} THEN 0
    ELSE LET f == CHOOSE x \in fs : TRUE
         IN  Len(futures[f].outcome.items) + SumRecords(fs \ {f})

\* C18: the outcome group of an address key is the two lookups of the last
\* row with that key; when process_rows has returned, the records of the
\* address are those of these two lookups, the address is missing exactly
\* when these two gave no record, and the lookups of the earlier rows have
\* ended as well.
C18_LastRowWins ==
    /\ \A k \in 1..Len(tasks) : tasks[k].futs = FuturesOfRow(LastRow(tasks[k].key))
    /\ HasReturned =>
           /\ \A k \in 1..Len(tasks) :
                  LET key == tasks[k].key
                      last == FuturesOfRow(LastRow(key))
                      at == RecordsAt(metering_data, key)
                  IN  /\ Cardinality(at) = SumRecords(last)
                      /\ {metering_data[n] : n \in at} =
                             UNION {Range(futures[f].outcome.items) : f \in last}
                      /\ EntriesAt(missing_addresses, key) # {} <=> SumRecords(last) = 0
           /\ \A t \in 1..Len(futures) : futures[t].state = "done"

\* process_rows has returned an address as missing although the lookup of
\* an earlier row of that address had found a point.
C18_Witness ==
    /\ pc = "returned"
    /\ \E t \in Orphans :
           /\ futures[t].outcome.items # <<>>
           /\ EntriesAt(missing_addresses, KeyOf(df.rows[futures[t].row])) # {}

\* C19: the missing-address list has no address key twice, its keys are in
\* the order of their first rows, and what process_rows returns is the list
\* of the run that reads every lookup in submission order.
C19_MissingOrder ==
    /\ \A m, n \in 1..Len(missing_addresses) :
           m < n =>
               /\ missing_addresses[m] # missing_addresses[n]
               /\ FirstRow(missing_addresses[m]) < FirstRow(missing_addresses[n])
    /\ HasReturned => missing_addresses = OrderedMissing

\* Both addresses of a table whose first address comes back in the last row
\* are returned as missing.
C19_Witness ==
    /\ pc = "returned"
    /\ Len(df.rows) = 3
    /\ KeyOf(df.rows[1]) = KeyOf(df.rows[3])
    /\ KeyOf(df.rows[1]) # KeyOf(df.rows[2])
    /\ Len(missing_addresses) = 2

====
